---- MODULE Spec2Model ----
(***************************************************************************)
(* Model of the fluent_libc CLI parser: the application schema of          *)
(* src/app/app.h (cli_insert_flag, cli_insert_command) and the argument    *)
(* walk of src/cli.h (parse_argv).                                         *)
(*                                                                         *)
(* C strings are sequences of one-character strings, so that arg[0],      *)
(* arg[1], arg + 1 and arg + 2 are what they are in the source.            *)
(***************************************************************************)
EXTENDS Integers, Sequences, FiniteSets, TLC

\* ------------------------------------------------------------------ bounds
\* longest argument list (tokens after the program name) enumerated in full
MaxArgs == 3
\* most schema entries registered (a call is made only below this number)
MaxEntries == 3

\* ---------------------------------------------------------------- pointers
\* the NULL pointer of a hashmap value or of a vector pointer
NULL == 0
\* the presence sentinel (cli_i_value_t *)1 stored for static flags
SENTINEL == 1
\* a NULL char pointer (a key or a string value); no C string equals it
NullStr == <<"NULL">>

\* ------------------------------------------------------------------- types
CliTypes == {"STATIC", "STRING", "INTEGER", "FLOAT", "ARRAY"}

\* ------------------------------------------------------------ the hashmaps
\* A hashmap is a function from its keys to its values.  The container is
\* the fluent_libc hashmap (not part of this repository): insert adds the
\* key or replaces the value of an equal key, remove is a no-op on an absent
\* key, get returns NULL (here: HasKey is false) for an absent key.
EmptyMap == [k \in {} |-> NULL]

HasKey(m, k) == k \in DOMAIN m

hashmap_insert(m, k, v) == [x \in (DOMAIN m) \cup {k} |-> IF x = k THEN v ELSE m[x]]

hashmap_remove(m, k) == [x \in (DOMAIN m) \ {k} |-> m[x]]

\* ----------------------------------------------------------------- strings
verbose == <<"v", "e", "r", "b", "o", "s", "e">>
out == <<"o", "u", "t">>
tags == <<"t", "a", "g", "s">>
num == <<"n", "u", "m">>
max == <<"m", "a", "x">>
rate == <<"r", "a", "t", "e">>
build == <<"b", "u", "i", "l", "d">>
run == <<"r", "u", "n">>
target == <<"t", "a", "r", "g", "e", "t">>
main_c == <<"m", "a", "i", "n", ".", "c">>

\* "--" followed by a name, and "-" followed by a name
Long(n) == <<"-", "-">> \o n

Short(n) == <<"-">> \o n

\* the string that starts k characters into s (the pointer s + k)
Skip(s, k) == SubSeq(s, k + 1, Len(s))

\* s[k] of the source (0-based); the terminator is "\\0"
CharAt(s, k) == IF k < Len(s) THEN s[k + 1] ELSE "\\0"

\* ------------------------------------------------------- the schema entries
\* The cli_value_t objects the caller built with cli_new_value; a pointer to
\* one of them is its index here.  description is not modelled (the parser
\* never reads it).
Values ==
  << [type |-> "STATIC",  alias |-> <<"v">>, required |-> FALSE],   \* 1 verbose
     [type |-> "STRING",  alias |-> <<"o">>, required |-> TRUE],    \* 2 out
     [type |-> "ARRAY",   alias |-> <<"t">>, required |-> FALSE],   \* 3 tags
     [type |-> "INTEGER", alias |-> NullStr, required |-> FALSE],   \* 4 num
     [type |-> "INTEGER", alias |-> NullStr, required |-> FALSE],   \* 5 max
     [type |-> "FLOAT",   alias |-> NullStr, required |-> FALSE],   \* 6 rate
     [type |-> "STRING",  alias |-> <<"b">>, required |-> FALSE],   \* 7 build
     [type |-> "STRING",  alias |-> NullStr, required |-> FALSE],   \* 8 run
     [type |-> "STATIC",  alias |-> <<"v">>, required |-> TRUE],    \* 9 version
     [type |-> "STRING",  alias |-> <<"b">>, required |-> FALSE],   \* 10 bench
     [type |-> "INTEGER", alias |-> NullStr, required |-> FALSE],   \* 11 jobs
     [type |-> "ARRAY",   alias |-> NullStr, required |-> FALSE],   \* 12 all
     [type |-> "STATIC",  alias |-> NullStr, required |-> FALSE] >> \* 13 noop

version == <<"v", "e", "r", "s", "i", "o", "n">>
bench == <<"b", "e", "n", "c", "h">>
jobs == <<"j", "o", "b", "s">>
all == <<"a", "l", "l">>
noop == <<"n", "o", "o", "p">>
\* the empty string ""
empty == <<>>

\* the registration calls the caller may make: (flag_name, value)
FlagDecls ==
  { [name |-> verbose, value |-> 1], [name |-> out, value |-> 2],
    [name |-> tags, value |-> 3],    [name |-> num, value |-> 4],
    [name |-> max, value |-> 5],     [name |-> rate, value |-> 6],
    [name |-> version, value |-> 9], [name |-> <<"v">>, value |-> 4],
    [name |-> build, value |-> 5],   [name |-> empty, value |-> 4] }

\* (command_name, value)
CommandDecls ==
  { [name |-> build, value |-> 7], [name |-> run, value |-> 8],
    [name |-> bench, value |-> 10], [name |-> out, value |-> 8],
    [name |-> jobs, value |-> 11],  [name |-> all, value |-> 12],
    [name |-> noop, value |-> 13] }

\* --------------------------------------------------------------- variables
VARIABLES
  app,        \* cli_app_t: flags, commands, required_flags (key -> entry pointer)
              \* and alloc, the maps whose pointer is not NULL
  call,       \* the last registration call and what it returned
  parsed,     \* whether parse_argv has been called on app
  pc,         \* "idle", "loop" (inside parse_argv), "returned", "crashed",
              \* "destroyed" (after cli_destroy_app), "failed" (cli_new_app
              \* returned false)
  argv,       \* the argument vector of the current parse_argv call
  f,          \* the activation of parse_argv: its locals and what it allocated
  destroyed   \* cli_destroy_app: its free_map_values and the free() calls per entry

\* the three maps of cli_app_t
MapNames == {"flags", "commands", "required_flags"}

\* cli_new_app with its three maps allocated
NewApp == [flags |-> EmptyMap, commands |-> EmptyMap, required_flags |-> EmptyMap,
           alloc |-> MapNames]

\* cli_new_app (app.h 69-102) when hashmap_cli_value_new succeeds for the
\* maps in alloc and returns NULL for the others: the application (alloc
\* records which pointers are not NULL) and the value returned
cli_new_app(alloc) ==
  [app |-> [NewApp EXCEPT !.alloc = alloc],
   ret |-> ("flags" \in alloc /\ "commands" \in alloc)]

\* cli_has_value without the second disjunct of line 124: only flags is consulted
cli_has_value_FlagsOnly(a, name) ==
  /\ name # NullStr
  /\ HasKey(a.flags, name) /\ a.flags[name] # NULL

\* cli_has_value (app.h 115-128): name is a key of flags or of commands
cli_has_value(a, name) ==
  /\ name # NullStr
  /\ \/ (HasKey(a.flags, name) /\ a.flags[name] # NULL)
     \/ (HasKey(a.commands, name) /\ a.commands[name] # NULL)

\* cli_insert_flag: the application after the call and the value returned
cli_insert_flag(a, flag_name, value) ==
  IF flag_name = NullStr \/ value = NULL
  THEN [app |-> a, ret |-> FALSE]
  ELSE IF cli_has_value(a, flag_name)
  THEN [app |-> a, ret |-> FALSE]
  ELSE LET a1 == [a EXCEPT !.flags = hashmap_insert(@, flag_name, value)]
           alias == Values[value].alias
       IN IF alias # NullStr /\ cli_has_value(a1, alias)
          THEN [app |-> a1, ret |-> FALSE]
          ELSE LET a2 == IF alias # NullStr
                         THEN [a1 EXCEPT !.flags = hashmap_insert(@, alias, value)]
                         ELSE a1
                   a3 == IF Values[value].required
                         THEN [a2 EXCEPT !.required_flags = hashmap_insert(@, flag_name, value)]
                         ELSE a2
               IN [app |-> a3, ret |-> TRUE]

\* cli_insert_command: the application after the call and the value returned
cli_insert_command(a, command_name, value) ==
  IF command_name = NullStr \/ value = NULL
  THEN [app |-> a, ret |-> FALSE]
  ELSE IF cli_has_value(a, command_name)
  THEN [app |-> a, ret |-> FALSE]
  ELSE LET a1 == [a EXCEPT !.commands = hashmap_insert(@, command_name, value)]
           alias == Values[value].alias
       IN IF alias # NullStr /\ cli_has_value(a1, alias)
          THEN [app |-> a1, ret |-> FALSE]
          ELSE LET a2 == IF alias # NullStr
                         THEN [a1 EXCEPT !.commands = hashmap_insert(@, alias, value)]
                         ELSE a1
               IN [app |-> a2, ret |-> TRUE]

\* ------------------------------------------------------------- conversions
Digits == <<"0", "1", "2", "3", "4", "5", "6", "7", "8", "9">>

IsDigit(c) == \E d \in 1..10 : Digits[d] = c

DigitVal(c) == (CHOOSE d \in 1..10 : Digits[d] = c) - 1

\* the value of the digits of s from position k (1-based) on, after acc
RECURSIVE AtoiFrom(_, _, _)
AtoiFrom(s, k, acc) ==
  IF k > Len(s) \/ ~IsDigit(s[k]) THEN acc
  ELSE AtoiFrom(s, k + 1, acc * 10 + DigitVal(s[k]))

\* atoi_convert (fluent_libc): optional sign, then the leading digits; what
\* follows them is ignored and no digit at all gives 0
atoi_convert(s) ==
  IF CharAt(s, 0) = "-" THEN 0 - AtoiFrom(s, 2, 0)
  ELSE IF CharAt(s, 0) = "+" THEN AtoiFrom(s, 2, 0)
  ELSE AtoiFrom(s, 1, 0)

\* the position (1-based) of the first character of s, from k on, that is
\* not a digit; Len(s) + 1 if there is none
RECURSIVE DigitsEnd(_, _)
DigitsEnd(s, k) == IF k > Len(s) \/ ~IsDigit(s[k]) THEN k ELSE DigitsEnd(s, k + 1)

\* atof (libc), in hundredths: the leading decimal literal of s, its
\* fraction cut after two digits
atof(s) ==
  LET e == DigitsEnd(s, 1)
      whole == AtoiFrom(s, 1, 0)
      d1 == IF CharAt(s, e - 1) = "." /\ IsDigit(CharAt(s, e)) THEN DigitVal(CharAt(s, e)) ELSE 0
      d2 == IF CharAt(s, e - 1) = "." /\ IsDigit(CharAt(s, e)) /\ IsDigit(CharAt(s, e + 1))
            THEN DigitVal(CharAt(s, e + 1)) ELSE 0
  IN whole * 100 + d1 * 10 + d2

\* ------------------------------------------------------------ parsed values
Fields == {"value", "vec_value", "num_val", "float_val"}

\* a cli_i_value_t; def is the set of its fields that have been assigned
\* (the others are indeterminate, whatever is shown for them)
ZeroValue == [value |-> NullStr, vec_value |-> NULL, num_val |-> 0, float_val |-> 0, def |-> Fields]

Indeterminate == [ZeroValue EXCEPT !.def = {}]

\* value cells live in f.cells and are pointed to by 2, 3, ... (1 is the
\* sentinel); vectors live in f.vectors and are pointed to by 1, 2, ...
CellPtr(k) == k + 1

Cell(fr, ptr) == fr.cells[ptr - 1]

\* lines 184-251 of parse_argv: the result with its five empty maps (their
\* allocation is taken to succeed) and the locals
InitFrame ==
  [ parsed_args |-> [success |-> TRUE, command |-> Indeterminate,
                     statics |-> EmptyMap, strings |-> EmptyMap, integers |-> EmptyMap,
                     floats |-> EmptyMap, arrays |-> EmptyMap, cmd_ptr |-> NULL],
    command |-> ZeroValue,
    waiting_value |-> FALSE,
    parsing_command |-> FALSE,
    parsing_array |-> FALSE,
    array_values |-> NULL,
    last_type |-> "STATIC",
    command_type |-> "STATIC",
    flag_name |-> NullStr,
    command_name |-> NullStr,
    i |-> 1,
    cells |-> <<>>,
    vectors |-> <<>> ]

\* a step of parse_argv: the activation, required_flags and where control is
Continue(fr, req) == [f |-> [fr EXCEPT !.i = @ + 1], req |-> req, pc |-> "loop"]

\* success = 0; command = command; return
Fail(fr, req) ==
  [f |-> [fr EXCEPT !.parsed_args.success = FALSE, !.parsed_args.command = fr.command],
   req |-> req, pc |-> "returned"]

\* success = 0; return (lines 275-276 and 491-492: command is not assigned)
FailBare(fr, req) ==
  [f |-> [fr EXCEPT !.parsed_args.success = FALSE], req |-> req, pc |-> "returned"]

Crash(fr, req) == [f |-> fr, req |-> req, pc |-> "crashed"]

\* argv_t_process_array (malloc taken to succeed): a fresh empty vector
argv_t_process_array(fr) ==
  [fr EXCEPT !.vectors = Append(@, <<>>),
             !.array_values = Len(fr.vectors) + 1,
             !.parsing_array = TRUE,
             !.waiting_value = TRUE]

\* vec_cli_push(array_values, arg)
vec_cli_push(fr, arg) == [fr EXCEPT !.vectors[fr.array_values] = Append(@, arg)]

\* FlagLookup without the return of line 319: an unknown flag clears
\* success and the walk goes on
FlagLookup_NoReturn(fr, req, a) ==
  IF ~HasKey(a.flags, fr.flag_name)
  THEN Continue([fr EXCEPT !.parsed_args.success = FALSE], req)
  ELSE LET flag == Values[a.flags[fr.flag_name]]
       IN IF flag.type = "ARRAY" THEN Continue(argv_t_process_array(fr), req)
          ELSE LET f1 == IF flag.type = "STATIC"
                         THEN [fr EXCEPT !.waiting_value = FALSE,
                                         !.parsed_args.statics =
                                             hashmap_insert(@, fr.flag_name, SENTINEL)]
                         ELSE fr
               IN Continue([f1 EXCEPT !.parsing_command = FALSE,
                                      !.waiting_value = TRUE,
                                      !.last_type = flag.type], req)

\* lines 310-359: the flag named fr.flag_name is looked up and acted upon
FlagLookup(fr, req, a) ==
  IF ~HasKey(a.flags, fr.flag_name) THEN Fail(fr, req)
  ELSE LET flag == Values[a.flags[fr.flag_name]]
       IN IF flag.type = "ARRAY" THEN Continue(argv_t_process_array(fr), req)
          ELSE LET f1 == IF flag.type = "STATIC"
                         THEN [fr EXCEPT !.waiting_value = FALSE,
                                         !.parsed_args.statics =
                                             hashmap_insert(@, fr.flag_name, SENTINEL)]
                         ELSE fr
               IN Continue([f1 EXCEPT !.parsing_command = FALSE,
                                      !.waiting_value = TRUE,
                                      !.last_type = flag.type], req)

\* FlagToken without lines 262-269: a flag may interrupt an owed scalar value
FlagToken_NoOwedCheck(fr, req, a, arg) ==
  IF fr.waiting_value /\ fr.parsing_array THEN FailBare(fr, req)
  ELSE LET f1 == [fr EXCEPT !.parsing_array = FALSE]
       IN IF CharAt(arg, 1) = "-"
          THEN LET flag_name == Skip(arg, 2)
               IN FlagLookup([f1 EXCEPT !.flag_name = flag_name],
                             hashmap_remove(req, flag_name), a)
          ELSE IF CharAt(arg, 1) = "\\0" THEN Fail(f1, req)
          ELSE LET flag_name == Skip(arg, 1)
               IN IF CharAt(flag_name, 0) = "\\0"
                  THEN Fail([f1 EXCEPT !.flag_name = flag_name], req)
                  ELSE FlagLookup([f1 EXCEPT !.flag_name = flag_name],
                                  hashmap_remove(req, flag_name), a)

\* FlagToken without lines 287 and 307: required_flags is left alone
FlagToken_NoRemove(fr, req, a, arg) ==
  IF fr.waiting_value /\ ~fr.parsing_array THEN Fail(fr, req)
  ELSE IF fr.waiting_value /\ fr.parsing_array THEN FailBare(fr, req)
  ELSE LET f1 == [fr EXCEPT !.parsing_array = FALSE]
       IN IF CharAt(arg, 1) = "-"
          THEN FlagLookup([f1 EXCEPT !.flag_name = Skip(arg, 2)], req, a)
          ELSE IF CharAt(arg, 1) = "\\0" THEN Fail(f1, req)
          ELSE LET flag_name == Skip(arg, 1)
               IN IF CharAt(flag_name, 0) = "\\0"
                  THEN Fail([f1 EXCEPT !.flag_name = flag_name], req)
                  ELSE FlagLookup([f1 EXCEPT !.flag_name = flag_name], req, a)

\* FlagToken without lines 271-277: a flag ends an array collection
FlagToken_EndsArray(fr, req, a, arg) ==
  IF fr.waiting_value /\ ~fr.parsing_array THEN Fail(fr, req)
  ELSE LET f1 == [fr EXCEPT !.parsing_array = FALSE]
       IN IF CharAt(arg, 1) = "-"
          THEN LET flag_name == Skip(arg, 2)
               IN FlagLookup([f1 EXCEPT !.flag_name = flag_name],
                             hashmap_remove(req, flag_name), a)
          ELSE IF CharAt(arg, 1) = "\\0" THEN Fail(f1, req)
          ELSE LET flag_name == Skip(arg, 1)
               IN IF CharAt(flag_name, 0) = "\\0"
                  THEN Fail([f1 EXCEPT !.flag_name = flag_name], req)
                  ELSE FlagLookup([f1 EXCEPT !.flag_name = flag_name],
                                  hashmap_remove(req, flag_name), a)

\* lines 260-360: a token that starts with '-'
FlagToken(fr, req, a, arg) ==
  IF fr.waiting_value /\ ~fr.parsing_array THEN Fail(fr, req)
  ELSE IF fr.waiting_value /\ fr.parsing_array THEN FailBare(fr, req)
  ELSE LET f1 == [fr EXCEPT !.parsing_array = FALSE]
       IN IF CharAt(arg, 1) = "-"
          THEN LET flag_name == Skip(arg, 2)
               IN FlagLookup([f1 EXCEPT !.flag_name = flag_name],
                             hashmap_remove(req, flag_name), a)
          ELSE IF CharAt(arg, 1) = "\\0" THEN Fail(f1, req)
          ELSE LET flag_name == Skip(arg, 1)
               IN IF CharAt(flag_name, 0) = "\\0"
                  THEN Fail([f1 EXCEPT !.flag_name = flag_name], req)
                  ELSE FlagLookup([f1 EXCEPT !.flag_name = flag_name],
                                  hashmap_remove(req, flag_name), a)

\* hashmap_cli_i_insert(parsed_args.<map>, command_name, ptr) of lines 415,
\* 432, 454 and 474, then line 480.  Hashing a NULL key is undefined: the
\* build either traps or files the entry under the NULL key.
InsertValue(fr, req, map, ptr, trap) ==
  IF fr.command_name = NullStr /\ trap THEN Crash(fr, req)
  ELSE Continue([fr EXCEPT !.parsed_args[map] = hashmap_insert(@, fr.command_name, ptr),
                           !.waiting_value = FALSE], req)

\* lines 373-481: a token taken as a scalar value
ScalarValue(fr, req, arg, trap) ==
  LET parse_type == IF fr.parsing_command THEN fr.command_type ELSE fr.last_type
      alloc == ~fr.parsing_command /\ parse_type # "STATIC"
      f1 == IF alloc THEN [fr EXCEPT !.cells = Append(@, Indeterminate)] ELSE fr
      value == CellPtr(Len(f1.cells))
      CellSet(field, v) ==
          [f1 EXCEPT !.cells[Len(f1.cells)][field] = v,
                     !.cells[Len(f1.cells)].def = @ \cup {field}]
      CommandSet(field, v) ==
          Continue([f1 EXCEPT !.command[field] = v,
                              !.parsing_command = FALSE,
                              !.waiting_value = FALSE], req)
  IN CASE parse_type = "INTEGER" ->
            IF fr.parsing_command THEN CommandSet("num_val", atoi_convert(arg))
            ELSE InsertValue(CellSet("num_val", atoi_convert(arg)), req, "integers", value, trap)
       [] parse_type = "STATIC" ->
            IF fr.parsing_command THEN Fail(f1, req)
            ELSE InsertValue(f1, req, "statics", SENTINEL, trap)
       [] parse_type = "ARRAY" ->
            Continue([vec_cli_push(f1, arg) EXCEPT !.waiting_value = TRUE], req)
       [] parse_type = "STRING" ->
            IF fr.parsing_command THEN CommandSet("value", arg)
            ELSE InsertValue(CellSet("value", arg), req, "strings", value, trap)
       [] parse_type = "FLOAT" ->
            IF fr.parsing_command THEN CommandSet("float_val", atof(arg))
            ELSE InsertValue(CellSet("float_val", atof(arg)), req, "floats", value, trap)

\* CommandToken without lines 501-507: an unknown command name is kept
CommandToken_AcceptUnknown(fr, req, a, arg) ==
  IF fr.command_name = NullStr
  THEN IF fr.waiting_value THEN FailBare(fr, req)
       ELSE LET f1 == [fr EXCEPT !.command_name = arg]
            IN IF ~HasKey(a.commands, arg) THEN Continue(f1, req)
               ELSE LET command_value == a.commands[arg]
                        f2 == [f1 EXCEPT !.command_type = Values[command_value].type,
                                         !.waiting_value = TRUE,
                                         !.parsing_array = (Values[command_value].type = "ARRAY"),
                                         !.parsing_command = TRUE,
                                         !.parsed_args.cmd_ptr = command_value]
                    IN IF f2.parsing_array THEN Continue(argv_t_process_array(f2), req)
                       ELSE Continue(f2, req)
  ELSE Fail(fr, req)

\* CommandToken whose line 512 awaits a value only for a command that is
\* not STATIC
CommandToken_StaticNoValue(fr, req, a, arg) ==
  IF fr.command_name = NullStr
  THEN IF fr.waiting_value THEN FailBare(fr, req)
       ELSE LET f1 == [fr EXCEPT !.command_name = arg]
            IN IF ~HasKey(a.commands, arg) THEN Fail(f1, req)
               ELSE LET command_value == a.commands[arg]
                        f2 == [f1 EXCEPT !.command_type = Values[command_value].type,
                                         !.waiting_value = (Values[command_value].type # "STATIC"),
                                         !.parsing_array = (Values[command_value].type = "ARRAY"),
                                         !.parsing_command = TRUE,
                                         !.parsed_args.cmd_ptr = command_value]
                    IN IF f2.parsing_array THEN Continue(argv_t_process_array(f2), req)
                       ELSE Continue(f2, req)
  ELSE Fail(fr, req)

\* lines 484-543: a bare token while no value is awaited
CommandToken(fr, req, a, arg) ==
  IF fr.command_name = NullStr
  THEN IF fr.waiting_value THEN FailBare(fr, req)
       ELSE LET f1 == [fr EXCEPT !.command_name = arg]
            IN IF ~HasKey(a.commands, arg) THEN Fail(f1, req)
               ELSE LET command_value == a.commands[arg]
                        f2 == [f1 EXCEPT !.command_type = Values[command_value].type,
                                         !.waiting_value = TRUE,
                                         !.parsing_array = (Values[command_value].type = "ARRAY"),
                                         !.parsing_command = TRUE,
                                         !.parsed_args.cmd_ptr = command_value]
                    IN IF f2.parsing_array THEN Continue(argv_t_process_array(f2), req)
                       ELSE Continue(f2, req)
  ELSE Fail(fr, req)

\* the body of the for loop (lines 254-544) on the token arg
ProcessArg(fr, req, a, arg, trap) ==
  IF CharAt(arg, 0) = "-" THEN FlagToken(fr, req, a, arg)
  ELSE IF fr.waiting_value
       THEN IF fr.parsing_array THEN Continue(vec_cli_push(fr, arg), req)
            ELSE ScalarValue(fr, req, arg, trap)
       ELSE CommandToken(fr, req, a, arg)

\* Finish without line 557: the success path forgets to copy the command
Finish_NoCommandCopy(fr, req) ==
  IF (fr.waiting_value /\ ~fr.parsing_array) \/ fr.command_name = NullStr
     \/ Cardinality(DOMAIN req) # 0
  THEN [f |-> [fr EXCEPT !.parsed_args.success = FALSE, !.parsed_args.command = fr.command],
        req |-> req, pc |-> "returned"]
  ELSE [f |-> fr, req |-> req, pc |-> "returned"]

\* Finish without the first disjunct of line 548: an owed value goes unnoticed
Finish_NoOwedCheck(fr, req) ==
  IF fr.command_name = NullStr \/ Cardinality(DOMAIN req) # 0
  THEN [f |-> [fr EXCEPT !.parsed_args.success = FALSE, !.parsed_args.command = fr.command],
        req |-> req, pc |-> "returned"]
  ELSE [f |-> [fr EXCEPT !.parsed_args.command = fr.command], req |-> req, pc |-> "returned"]

\* Finish without the second disjunct of line 548: no command is needed
Finish_NoCommandCheck(fr, req) ==
  IF (fr.waiting_value /\ ~fr.parsing_array) \/ Cardinality(DOMAIN req) # 0
  THEN [f |-> [fr EXCEPT !.parsed_args.success = FALSE, !.parsed_args.command = fr.command],
        req |-> req, pc |-> "returned"]
  ELSE [f |-> [fr EXCEPT !.parsed_args.command = fr.command], req |-> req, pc |-> "returned"]

\* lines 546-558: the check after the loop
Finish(fr, req) ==
  IF (fr.waiting_value /\ ~fr.parsing_array) \/ fr.command_name = NullStr
     \/ Cardinality(DOMAIN req) # 0
  THEN Fail(fr, req)
  ELSE [f |-> [fr EXCEPT !.parsed_args.command = fr.command], req |-> req, pc |-> "returned"]

\* parse_argv run to its end on the argument vector av from the activation
\* fr: what Finish, a failing token or a trap leaves
RECURSIVE RunFrom(_, _, _, _, _)
RunFrom(fr, req, a, av, trap) ==
  IF fr.i >= Len(av) THEN Finish(fr, req)
  ELSE LET r == ProcessArg(fr, req, a, av[fr.i + 1], trap)
       IN IF r.pc = "loop" THEN RunFrom(r.f, r.req, a, av, trap) ELSE r

\* parse_argv(argc, argv, app) as one function of its inputs
parse_argv(av, a, trap) == RunFrom(InitFrame, a.required_flags, a, av, trap)

\* the walk of parse_argv over av stopped before the token at position j
\* (position 1 is the program name): the activation there, or the return
\* of an earlier token
RECURSIVE RunBefore(_, _, _, _, _, _)
RunBefore(fr, req, a, av, j, trap) ==
  IF fr.i + 1 >= j \/ fr.i >= Len(av) THEN [f |-> fr, req |-> req, pc |-> "loop"]
  ELSE LET r == ProcessArg(fr, req, a, av[fr.i + 1], trap)
       IN IF r.pc = "loop" THEN RunBefore(r.f, r.req, a, av, j, trap) ELSE r

\* ------------------------------------------------------------------ inputs
prog == <<"p", "r", "o", "g">>

\* the tokens every argument list up to MaxArgs is built from
Tokens ==
  { Short(<<"v">>), Long(out), Long(tags), build, <<"x">>, <<"-">> }

RECURSIVE SeqsUpTo(_, _)
SeqsUpTo(S, n) ==
  IF n = 0 THEN {<<>>}
  ELSE LET shorter == SeqsUpTo(S, n - 1)
       IN shorter \cup {Append(t, x) : t \in {u \in shorter : Len(u) = n - 1}, x \in S}

\* longer argument lists: the scenarios of the specification and their kin
Scenarios ==
  { <<Short(<<"v">>), build, main_c>>,
    <<Long(verbose), build, main_c>>,
    <<Long(tags), <<"a">>, <<"b">>, <<"c">>, run, target>>,
    <<build, <<"x">>, Long(out), <<"y">>>>,
    <<build, <<"x">>, Short(<<"o">>), <<"y">>>>,
    <<build, <<"x">>, Long(num), <<"7">>, Long(max), <<"8">>>>,
    <<build, <<"x">>, Long(num), <<"7">>, Long(out), <<"y">>>>,
    <<build, <<"x">>, Long(rate), <<"1", ".", "5">>>>,
    <<build, <<"x">>, Long(tags), <<"a">>, <<"b">>>>,
    <<build, <<"x">>, Long(tags), <<"a">>, Long(num), <<"7">>>>,
    <<run, target, Long(num), <<"7", "x">>>>,
    <<build, <<"-", "-">>>>,
    <<build, <<"x">>, <<"-", "-">>, <<"7">>>>,
    <<build, <<"x">>, Short(<<"v">>), <<"y">>>>,
    <<jobs, <<"1", "2", "x">>>>,
    <<jobs, <<"7">>, Long(num), <<"8">>>>,
    <<all, <<"a">>, <<"b">>>>,
    <<all>>,
    <<noop, <<"x">>>>,
    <<noop, Short(<<"v">>)>>,
    <<noop>> }

Argvs == {<<prog>> \o s : s \in SeqsUpTo(Tokens, MaxArgs) \cup Scenarios}

\* destroy_app_map (lines 616-642): the number of free() calls it makes on
\* each schema entry, one per key that holds the entry
destroy_app_map(map, free_map_values) ==
  [e \in 1..Len(Values) |->
     IF free_map_values THEN Cardinality({k \in DOMAIN map : map[k] = e}) ELSE 0]

\* cli_destroy_app (lines 686-695): commands, flags, then required_flags
\* with free_map_values = FALSE
cli_destroy_app(a, free_map_values) ==
  [e \in 1..Len(Values) |->
     destroy_app_map(a.commands, free_map_values)[e]
       + destroy_app_map(a.flags, free_map_values)[e]
       + destroy_app_map(a.required_flags, FALSE)[e]]

\* cli_destroy_app has not been called
NotDestroyed == [free_map_values |-> FALSE, count |-> [e \in 1..Len(Values) |-> 0]]

NoCall == [fn |-> "none", name |-> NullStr, value |-> NULL, ret |-> FALSE]

vars == <<app, call, parsed, pc, argv, f, destroyed>>

\* ------------------------------------------------------------------- Init
Init ==
  /\ \E alloc \in SUBSET MapNames :
       LET r == cli_new_app(alloc)
       IN /\ app = r.app
          /\ call = [fn |-> "new_app", name |-> NullStr, value |-> NULL, ret |-> r.ret]
          /\ pc = IF r.ret THEN "idle" ELSE "failed"
  /\ parsed = FALSE
  /\ argv = <<prog>>
  /\ f = InitFrame
  /\ destroyed = NotDestroyed

\* the entries some key of flags or commands resolves to
Registered(a) == {a.flags[k] : k \in DOMAIN a.flags} \cup {a.commands[k] : k \in DOMAIN a.commands}

\* ---------------------------------------------------------------- actions
\* the caller registers a flag (before the first parse)
CliInsertFlag ==
  /\ pc = "idle" /\ ~parsed /\ Cardinality(Registered(app)) < MaxEntries
  /\ app.alloc = MapNames
  /\ \E d \in FlagDecls :
       LET r == cli_insert_flag(app, d.name, d.value)
       IN /\ app' = r.app
          /\ call' = [fn |-> "flag", name |-> d.name, value |-> d.value, ret |-> r.ret]
  /\ UNCHANGED <<parsed, pc, argv, f, destroyed>>

\* the caller registers a command (before the first parse)
CliInsertCommand ==
  /\ pc = "idle" /\ ~parsed /\ Cardinality(Registered(app)) < MaxEntries
  /\ app.alloc = MapNames
  /\ \E d \in CommandDecls :
       LET r == cli_insert_command(app, d.name, d.value)
       IN /\ app' = r.app
          /\ call' = [fn |-> "command", name |-> d.name, value |-> d.value, ret |-> r.ret]
  /\ UNCHANGED <<parsed, pc, argv, f, destroyed>>

\* parse_argv is entered (lines 181-251); registration is over
ParseBegin ==
  /\ pc = "idle"
  /\ app.alloc = MapNames
  /\ \E av \in Argvs : argv' = av
  /\ f' = InitFrame
  /\ pc' = "loop"
  /\ parsed' = TRUE
  /\ UNCHANGED <<app, destroyed>>
  /\ call' = NoCall

\* ParseToken whose removal of lines 287 and 307 is applied to flags too
ParseToken_WritesFlags ==
  /\ pc = "loop" /\ f.i < Len(argv)
  /\ \E trap \in BOOLEAN :
       LET arg == argv[f.i + 1]
           r == ProcessArg(f, app.required_flags, app, arg, trap)
       IN /\ f' = r.f
          /\ app' = [app EXCEPT !.required_flags = r.req,
                                !.flags = IF CharAt(arg, 0) = "-" /\ ~f.waiting_value
                                          THEN hashmap_remove(@, Skip(arg, 2))
                                          ELSE @]
          /\ pc' = r.pc
  /\ UNCHANGED <<call, parsed, argv, destroyed>>

\* one iteration of the loop on argv[i] (argv[0] is argv[1] here)
ParseToken ==
  /\ pc = "loop" /\ f.i < Len(argv)
  /\ \E trap \in BOOLEAN :
       LET r == ProcessArg(f, app.required_flags, app, argv[f.i + 1], trap)
       IN /\ f' = r.f
          /\ app' = [app EXCEPT !.required_flags = r.req]
          /\ pc' = r.pc
  /\ UNCHANGED <<call, parsed, argv, destroyed>>

\* the loop is over: the final check and the return
ParseFinish ==
  /\ pc = "loop" /\ f.i >= Len(argv)
  /\ LET r == Finish(f, app.required_flags)
     IN /\ f' = r.f
        /\ app' = [app EXCEPT !.required_flags = r.req]
        /\ pc' = r.pc
  /\ UNCHANGED <<call, parsed, argv, destroyed>>

\* what destroy_argv_map(map, TRUE) reads of a stored value before freeing
\* it is undefined when the value is the sentinel (address 1 is no cell) or
\* a cell whose vec_value was never assigned
UndefinedRead(fr, map) ==
  \E k \in DOMAIN fr.parsed_args[map] :
     LET value == fr.parsed_args[map][k]
     IN value # NULL /\ (value = SENTINEL \/ "vec_value" \notin Cell(fr, value).def)

\* destroy_argv (lines 653-674): the five maps and what they hold are
\* released, then the vector of the command slot; success is reset.  Where
\* it reads an undefined value the build either traps or goes on.
DestroyArgv ==
  /\ pc = "returned"
  /\ \E trap \in BOOLEAN :
       LET undefined ==
             \/ \E map \in {"statics", "strings", "integers", "floats", "arrays"} :
                   UndefinedRead(f, map)
             \/ "vec_value" \notin f.parsed_args.command.def
       IN pc' = IF undefined /\ trap THEN "crashed" ELSE "idle"
  /\ f' = [InitFrame EXCEPT !.parsed_args.success = FALSE]
  /\ argv' = <<prog>>
  /\ UNCHANGED <<app, call, parsed, destroyed>>

\* the caller releases the schema: cli_destroy_app(app, free_map_values).
\* A second free() of an entry is undefined: the build traps or goes on.
CliDestroyApp ==
  /\ pc = "idle"
  /\ \E free_map_values \in BOOLEAN, trap \in BOOLEAN :
       LET count == cli_destroy_app(app, free_map_values)
       IN /\ destroyed' = [free_map_values |-> free_map_values, count |-> count]
          /\ pc' = IF trap /\ \E e \in 1..Len(Values) : count[e] > 1
                   THEN "crashed" ELSE "destroyed"
  /\ UNCHANGED <<app, call, parsed, argv, f>>

\* parse_argv on an application whose required_flags is NULL (cli_new_app
\* returned true all the same): line 548 reads app->required_flags->count
\* through the null pointer, as lines 287 and 307 hand it to the removal.
\* Such a run is not followed further.
ParseUnallocated ==
  /\ pc = "idle"
  /\ "required_flags" \notin app.alloc
  /\ pc' = "crashed"
  /\ parsed' = TRUE
  /\ UNCHANGED <<app, call, argv, f, destroyed>>

Next ==
  \/ CliInsertFlag
  \/ CliInsertCommand
  \/ ParseBegin
  \/ ParseToken
  \/ ParseFinish
  \/ DestroyArgv
  \/ CliDestroyApp
  \/ ParseUnallocated

Spec == Init /\ [][Next]_vars

\* ------------------------------------------------------------ type sanity
TypeOK ==
  /\ pc \in {"idle", "loop", "returned", "crashed", "destroyed", "failed"}
  /\ app.alloc \subseteq MapNames
  /\ destroyed.free_map_values \in BOOLEAN
  /\ Cardinality(Registered(app)) <= MaxEntries
  /\ f.i \in 1..Len(argv)

\* ------------------------------------------------- vocabulary of the claims
IsFlagToken(arg) == CharAt(arg, 0) = "-"

\* the name a dash token is looked up under
StrippedName(arg) == IF CharAt(arg, 1) = "-" THEN Skip(arg, 2) ELSE Skip(arg, 1)

\* the canonical names of the flags whose registration went through: the
\* key is not the entry's alias and the alias, if any, resolves to the entry
FlagNames(a) ==
  { k \in DOMAIN a.flags :
      LET e == a.flags[k]
      IN /\ k # Values[e].alias
         /\ Values[e].alias # NullStr =>
              (HasKey(a.flags, Values[e].alias) /\ a.flags[Values[e].alias] = e) }

FlagOf(a, k) == Values[a.flags[k]]

\* positions 2..Len(argv) hold the tokens after the program name
TokenPositions == 2..Len(argv)

\* the token at position j is a dash token that resolves to the flag named k
TokenOfFlag(a, j, k) ==
  /\ IsFlagToken(argv[j])
  /\ HasKey(a.flags, StrippedName(argv[j]))
  /\ a.flags[StrippedName(argv[j])] = a.flags[k]

Returned == pc = "returned"

Succeeded == pc = "returned" /\ f.parsed_args.success

\* parse_argv went through every token and returned from the final check
ReturnedAtEnd == pc = "returned" /\ f.i = Len(argv)

ResultMaps == {"statics", "strings", "integers", "floats", "arrays"}

MapOfType(t) ==
  CASE t = "STATIC" -> "statics" [] t = "STRING" -> "strings" [] t = "INTEGER" -> "integers"
    [] t = "FLOAT" -> "floats" [] t = "ARRAY" -> "arrays"

\* ------------------------------------------------------------------ claims

\* C1: whenever parse_argv returns on a schema holding a flag registered with
\* required = true (also in a call that follows earlier calls on the same
\* schema) and no token of argv names that flag, success is 0.
C1_RequiredOmittedFails ==
  Returned =>
    \A k \in FlagNames(app) :
      (FlagOf(app, k).required /\ \A j \in TokenPositions : ~TokenOfFlag(app, j, k))
        => ~f.parsed_args.success

\* C2: a parse that is otherwise valid (every token was accepted, the command
\* was seen, no scalar value is owed) and in which every flag still required
\* is supplied, as --<name> or as -<alias>, returns success = 1.
C2_RequiredClearedByNameOrAlias ==
  ( /\ ReturnedAtEnd
    /\ ~(f.waiting_value /\ ~f.parsing_array)
    /\ f.command_name # NullStr
    /\ \A k \in FlagNames(app) :
         FlagOf(app, k).required =>
           \E j \in TokenPositions :
              argv[j] = Long(k) \/ (FlagOf(app, k).alias # NullStr
                                     /\ argv[j] = Short(FlagOf(app, k).alias)) )
  => f.parsed_args.success

\* the flags map resolves name to a flag of type t
FlagHasType(a, name, t) == HasKey(a.flags, name) /\ Values[a.flags[name]].type = t

CommandHasType(a, name, t) == HasKey(a.commands, name) /\ Values[a.commands[name]].type = t

\* no entry of the schema is a required one
NothingRequired(a) == \A e \in Registered(a) : ~Values[e].required

\* C3: after a STATIC flag token the parser is back in SEEK with no value
\* owed, so the next token is classified as if the flag had not been there;
\* and with flag verbose/-v (STATIC) and command build (STRING),
\* `prog -v build main.c` succeeds with verbose present and command value
\* "main.c".
C3_StaticFlagLeavesSeek ==
  /\ ( /\ pc = "loop" /\ f.i > 1
       /\ IsFlagToken(argv[f.i])
       /\ FlagHasType(app, StrippedName(argv[f.i]), "STATIC") )
     => ~f.waiting_value
  /\ ( /\ Returned
       /\ argv = <<prog, Short(<<"v">>), build, main_c>>
       /\ FlagHasType(app, verbose, "STATIC") /\ FlagHasType(app, <<"v">>, "STATIC")
       /\ app.flags[<<"v">>] = app.flags[verbose]
       /\ CommandHasType(app, build, "STRING")
       /\ NothingRequired(app) )
     => ( /\ f.parsed_args.success
          /\ HasKey(f.parsed_args.statics, verbose)
          /\ f.parsed_args.command.value = main_c )

\* argv with every token equal to old replaced by new
Replace(av, old, new) == [j \in DOMAIN av |-> IF av[j] = old THEN new ELSE av[j]]

\* C4: for a STATIC flag registered as x with alias a, an argv containing
\* --x and the same argv with -a in its place give the same statics mapping
\* (the presence entry is keyed by x in both).
C4_StaticAliasSameEntry ==
  (pc = "loop" /\ f.i = 1) =>
    \A x \in FlagNames(app) :
      ( /\ FlagOf(app, x).type = "STATIC"
        /\ FlagOf(app, x).alias # NullStr
        /\ \E j \in TokenPositions : argv[j] = Long(x) )
      => \A trap \in BOOLEAN :
           parse_argv(argv, app, trap).f.parsed_args.statics
             = parse_argv(Replace(argv, Long(x), Short(FlagOf(app, x).alias)),
                          app, trap).f.parsed_args.statics

\* name is a key of flags or of commands
IsKey(a, name) == HasKey(a.flags, name) \/ HasKey(a.commands, name)

\* the name given, or the alias of the entry given, is already a key
Collides(a, name, value) ==
  IsKey(a, name) \/ (Values[value].alias # NullStr /\ IsKey(a, Values[value].alias))

\* C5: a registration call (cli_insert_flag or cli_insert_command) whose
\* name, or whose entry's alias, is already a key of flags or commands
\* returns false and leaves flags, commands and required_flags as they were.
C5_CollisionLeavesSchema ==
  [][ ( /\ call'.fn \in {"flag", "command"} /\ pc' = "idle"
        /\ Collides(app, call'.name, call'.value) )
        => (call'.ret = FALSE /\ app' = app) ]_vars

\* the canonical name of the flag the dash token at position j resolves to
NameOfToken(a, j) ==
  CHOOSE k \in FlagNames(a) : a.flags[k] = a.flags[StrippedName(argv[j])]

\* position j holds a dash token of a flag, registered in full, of a type in ts
FlagTokenAt(a, j, ts) ==
  /\ IsFlagToken(argv[j])
  /\ HasKey(a.flags, StrippedName(argv[j]))
  /\ Values[a.flags[StrippedName(argv[j])]].type \in ts
  /\ \E k \in FlagNames(a) : a.flags[k] = a.flags[StrippedName(argv[j])]

\* C6: in a successful result, every flag of kind STRING, INTEGER or FLOAT
\* that was supplied with a value has an entry under its name in the mapping
\* of its kind and in none of the other four mappings.
C6_ScalarFlagInItsMapping ==
  Succeeded =>
    \A j \in TokenPositions :
      (FlagTokenAt(app, j, {"STRING", "INTEGER", "FLOAT"}) /\ j < Len(argv)) =>
        LET name == NameOfToken(app, j)
            own == MapOfType(FlagOf(app, name).type)
        IN /\ HasKey(f.parsed_args[own], name)
           /\ \A other \in ResultMaps \ {own} : ~HasKey(f.parsed_args[other], name)

\* some value cell of the mapping map has field assigned and equal to v
Holds(fr, map, field, v) ==
  \E k \in DOMAIN fr.parsed_args[map] :
     LET ptr == fr.parsed_args[map][k]
     IN /\ ptr \notin {NULL, SENTINEL}
        /\ field \in Cell(fr, ptr).def
        /\ Cell(fr, ptr)[field] = v

\* C7: in a successful result, for every occurrence of an INTEGER or STRING
\* flag followed by its value token, the mapping of that kind still holds a
\* value equal to the conversion of that token (also when several flags of
\* one kind are supplied).
C7_ScalarRoundTrip ==
  Succeeded =>
    \A j \in TokenPositions :
      (j < Len(argv) /\ ~IsFlagToken(argv[IF j < Len(argv) THEN j + 1 ELSE j])) =>
        /\ FlagTokenAt(app, j, {"INTEGER"})
             => Holds(f, "integers", "num_val", atoi_convert(argv[j + 1]))
        /\ FlagTokenAt(app, j, {"STRING"})
             => Holds(f, "strings", "value", argv[j + 1])

\* the tokens after position j up to the next dash token or the end
RECURSIVE Following(_, _)
Following(av, j) ==
  IF j + 1 > Len(av) \/ CharAt(av[IF j + 1 > Len(av) THEN j ELSE j + 1], 0) = "-" THEN <<>>
  ELSE <<av[j + 1]>> \o Following(av, j + 1)

\* the arrays mapping holds, under name, a cell whose vector is items
ArrayIs(fr, name, items) ==
  /\ HasKey(fr.parsed_args.arrays, name)
  /\ LET ptr == fr.parsed_args.arrays[name]
     IN /\ ptr \notin {NULL, SENTINEL}
        /\ "vec_value" \in Cell(fr, ptr).def
        /\ Cell(fr, ptr).vec_value # NULL
        /\ fr.vectors[Cell(fr, ptr).vec_value] = items

\* C8: an ARRAY flag collects the consecutive non-flag tokens that follow
\* it, in order, and a successful result holds exactly that sequence under
\* the flag's name in the arrays mapping.
C8_ArrayFlagCollected ==
  Succeeded =>
    \A j \in TokenPositions :
      FlagTokenAt(app, j, {"ARRAY"})
        => ArrayIs(f, NameOfToken(app, j), Following(argv, j))

\* the activation is collecting the values of an ARRAY flag
CollectingFlagArray(a, fr) ==
  /\ fr.waiting_value /\ fr.parsing_array
  /\ FlagHasType(a, fr.flag_name, "ARRAY")

\* C9: a token of another registered flag that arrives while an ARRAY flag
\* is collecting ends the collection without failing the parse, which goes
\* on with the new flag.
C9_FlagEndsArray ==
  [][ ( /\ pc = "loop" /\ f.i < Len(argv)
        /\ CollectingFlagArray(app, f)
        /\ IsFlagToken(argv[f.i + 1])
        /\ HasKey(app.flags, StrippedName(argv[f.i + 1]))
        /\ app.flags[StrippedName(argv[f.i + 1])] # app.flags[f.flag_name] )
      => ( /\ pc' = "loop"
           /\ f'.parsed_args.success
           /\ f'.flag_name = StrippedName(argv[f.i + 1]) ) ]_vars

\* C10: with flag tags (ARRAY) and command run (STRING),
\* `prog --tags a b c run target` succeeds with tags = ["a","b","c"] and
\* command value "target".
C10_ArrayBeforeCommand ==
  ( /\ Returned
    /\ argv = <<prog, Long(tags), <<"a">>, <<"b">>, <<"c">>, run, target>>
    /\ FlagHasType(app, tags, "ARRAY")
    /\ CommandHasType(app, run, "STRING")
    /\ NothingRequired(app) )
  => ( /\ f.parsed_args.success
       /\ ArrayIs(f, tags, <<<<"a">>, <<"b">>, <<"c">>>>)
       /\ f.parsed_args.command.value = target )

ScalarTypes == {"STRING", "INTEGER", "FLOAT"}

\* the positions of argv whose token the walk took as the command name: the
\* token is reached with no command recorded and leaves one recorded.  The
\* walk is the one on the schema as it stands (required_flags plays no part
\* in how a token is classified).
CommandPositions ==
  { j \in TokenPositions :
      LET before == RunBefore(InitFrame, app.required_flags, app, argv, j, FALSE)
          after == RunBefore(InitFrame, app.required_flags, app, argv, j + 1, FALSE)
      IN /\ before.pc = "loop" /\ before.f.command_name = NullStr
         /\ after.pc = "loop" /\ after.f.command_name # NullStr }

\* C11: after a successful parse whose command is of kind STRING or INTEGER
\* the command slot holds the conversion of the token right after the
\* command token in the field of that kind (value / num_val) and every other
\* field of the slot is NULL / 0.
C11_CommandSlot ==
  (Succeeded /\ Values[f.parsed_args.cmd_ptr].type \in {"STRING", "INTEGER"}) =>
    /\ Cardinality(CommandPositions) = 1
    /\ \A j \in CommandPositions :
         /\ j < Len(argv)
         /\ f.parsed_args.command =
              IF Values[f.parsed_args.cmd_ptr].type = "STRING"
              THEN [ZeroValue EXCEPT !.value = argv[IF j < Len(argv) THEN j + 1 ELSE j]]
              ELSE [ZeroValue EXCEPT !.num_val =
                                       atoi_convert(argv[IF j < Len(argv) THEN j + 1 ELSE j])]

\* a successful parse of `prog jobs 12x`: an INTEGER command whose value
\* token converts to 12
C11_Witness ==
  /\ Succeeded
  /\ Values[f.parsed_args.cmd_ptr].type = "INTEGER"
  /\ argv = <<prog, jobs, <<"1", "2", "x">>>>
  /\ f.parsed_args.command.num_val = 12

\* C12: after a successful parse whose command is of kind ARRAY the command
\* slot holds, in vec_value, a vector of exactly the bare tokens that
\* followed the command token, in input order.
C12_ArrayCommandSlot ==
  (Succeeded /\ Values[f.parsed_args.cmd_ptr].type = "ARRAY") =>
    \A j \in CommandPositions :
      /\ "vec_value" \in f.parsed_args.command.def
      /\ f.parsed_args.command.vec_value # NULL
      /\ f.vectors[f.parsed_args.command.vec_value] = Following(argv, j)

\* the token just accepted (argv[fr.i] of the walk) leaves a scalar value
\* owed: it is a flag of kind STRING, INTEGER or FLOAT, or the command token
\* of a command of such a kind
ScalarOwed(a, fr) ==
  /\ fr.i > 1
  /\ \/ /\ IsFlagToken(argv[fr.i])
        /\ HasKey(a.flags, StrippedName(argv[fr.i]))
        /\ Values[a.flags[StrippedName(argv[fr.i])]].type \in ScalarTypes
     \/ /\ fr.parsing_command
        /\ fr.command_type \in ScalarTypes
        /\ argv[fr.i] = fr.command_name

\* C13: a token that begins with '-' and arrives while a scalar flag value
\* or command value is owed makes parse_argv return success = 0.
C13_FlagWhileValueOwed ==
  [][ ( /\ pc = "loop" /\ f.i < Len(argv)
        /\ ScalarOwed(app, f)
        /\ IsFlagToken(argv[f.i + 1]) )
      => (pc' = "returned" /\ ~f'.parsed_args.success) ]_vars

\* parse_argv has returned on a registered flag's token that came right
\* after the token of a scalar command
C13_Witness ==
  /\ Returned /\ ~f.parsed_args.success
  /\ f.i < Len(argv)
  /\ ScalarOwed(app, f) /\ f.parsing_command
  /\ IsFlagToken(argv[f.i + 1])
  /\ HasKey(app.flags, StrippedName(argv[f.i + 1]))

\* the last token of argv is the token of a scalar flag
LastIsScalarFlag(a) ==
  /\ Len(argv) >= 2
  /\ IsFlagToken(argv[Len(argv)])
  /\ HasKey(a.flags, StrippedName(argv[Len(argv)]))
  /\ Values[a.flags[StrippedName(argv[Len(argv)])]].type \in ScalarTypes

\* the last token of argv was taken as the name of a scalar command
LastIsScalarCommand ==
  /\ Len(argv) >= 2
  /\ f.i = Len(argv)
  /\ f.parsing_command
  /\ f.command_type \in ScalarTypes
  /\ argv[Len(argv)] = f.command_name

\* C14: if the input ends while a scalar value is owed (the last token is a
\* STRING / INTEGER / FLOAT flag, or a scalar command, with no value after
\* it) parse_argv returns success = 0.
C14_MissingTrailingValue ==
  (Returned /\ (LastIsScalarFlag(app) \/ LastIsScalarCommand)) => ~f.parsed_args.success

\* every token was accepted, the command was seen, nothing is required any
\* more, and the last token is a scalar flag: only its value is missing
C14_Witness ==
  /\ ReturnedAtEnd /\ ~f.parsed_args.success
  /\ LastIsScalarFlag(app)
  /\ f.command_name # NullStr
  /\ DOMAIN app.required_flags = {}

\* C15: a dash token whose stripped name is not a key of flags, and a bare
\* token taken as the command name that is not a key of commands, each make
\* parse_argv return success = 0.
C15_UnknownTokenFails ==
  [][ ( /\ pc = "loop" /\ f.i < Len(argv)
        /\ \/ /\ IsFlagToken(argv[f.i + 1])
              /\ ~HasKey(app.flags, StrippedName(argv[f.i + 1]))
           \/ /\ ~IsFlagToken(argv[f.i + 1])
              /\ ~f.waiting_value
              /\ f.command_name = NullStr
              /\ ~HasKey(app.commands, argv[f.i + 1]) )
      => (pc' = "returned" /\ ~f'.parsed_args.success) ]_vars

\* parse_argv has returned on a bare token it took as the command name and
\* did not find in commands, with flags registered and commands too
C15_Witness ==
  /\ Returned /\ ~f.parsed_args.success
  /\ f.i < Len(argv)
  /\ ~IsFlagToken(argv[f.i + 1])
  /\ f.command_name = argv[f.i + 1]
  /\ ~HasKey(app.commands, argv[f.i + 1])
  /\ DOMAIN app.commands # {}

\* the token to come is owed to the command or to a flag as its value: the
\* token before it is a scalar flag or the scalar command, or an array is
\* being collected
ValueExpected(a, fr) ==
  \/ ScalarOwed(a, fr)
  \/ fr.waiting_value /\ fr.parsing_array

\* C16: once a command name has been recorded, a later bare token that is
\* neither the command's own value nor the value of a STRING, INTEGER, FLOAT
\* or ARRAY flag makes parse_argv return success = 0.
C16_SecondBareTokenFails ==
  [][ ( /\ pc = "loop" /\ f.i < Len(argv)
        /\ f.command_name # NullStr
        /\ ~IsFlagToken(argv[f.i + 1])
        /\ ~ValueExpected(app, f) )
      => (pc' = "returned" /\ ~f'.parsed_args.success) ]_vars

\* C17: parse_argv returns success = 1 only if a token was taken as the
\* command name during the walk; an argv with no such token (the program
\* name alone, or only flags and their values) yields success = 0.
C17_CommandNeeded ==
  Succeeded =>
    /\ CommandPositions # {}
    /\ f.command_name # NullStr
    /\ HasKey(app.commands, f.command_name)
    /\ f.parsed_args.cmd_ptr = app.commands[f.command_name]

\* every token was accepted, no scalar value is owed and nothing is required
\* any more, yet the parse failed: no token was the command
C17_Witness ==
  /\ ReturnedAtEnd /\ ~f.parsed_args.success
  /\ Len(argv) >= 2
  /\ f.command_name = NullStr
  /\ ~(f.waiting_value /\ ~f.parsing_array)
  /\ DOMAIN app.required_flags = {}

\* C18: a token that is exactly "-" or exactly "--" makes parse_argv return
\* success = 0, in whatever state it arrives.
C18_DanglingDashFails ==
  [][ ( /\ pc = "loop" /\ f.i < Len(argv)
        /\ argv[f.i + 1] \in {<<"-">>, <<"-", "-">>} )
      => (pc' = "returned" /\ ~f'.parsed_args.success) ]_vars

\* every key of map m of a resolves to the same entry in a2
KeysKept(a, a2, m) ==
  \A k \in DOMAIN a[m] : HasKey(a2[m], k) /\ a2[m][k] = a[m][k]

\* C19: after any sequence of cli_insert_flag and cli_insert_command calls,
\* successful or failed, no string is a key of both flags and commands, and
\* a key once registered keeps resolving to the entry it was first
\* registered with.
C19_GlobalUniqueness ==
  [][ /\ DOMAIN app'.flags \cap DOMAIN app'.commands = {}
      /\ KeysKept(app, app', "flags")
      /\ KeysKept(app, app', "commands") ]_vars

\* a command was refused because its name is a key of flags, and it did
\* not become a key of commands
C19_Witness ==
  /\ call.fn = "command" /\ ~call.ret
  /\ HasKey(app.flags, call.name)
  /\ ~HasKey(app.commands, call.name)
  /\ DOMAIN app.commands # {}

\* the keys of flags that are the canonical name (not the alias) of a
\* required entry
RequiredNames(a) ==
  { k \in DOMAIN a.flags :
      Values[a.flags[k]].required /\ k # Values[a.flags[k]].alias }

\* C20: before any parse, after any sequence of registration calls,
\* required_flags is the derived view of flags: a name is a key of
\* required_flags iff it is the canonical name of an entry present in
\* flags with required = true.
C20_RequiredIsDerivedView ==
  ~parsed => DOMAIN app.required_flags = RequiredNames(app)

\* the keys of the five result mappings
ResultKeys(fr) == UNION { DOMAIN fr.parsed_args[map] : map \in ResultMaps }

\* C21: every key parse_argv inserts into statics, strings, integers,
\* floats or arrays is a non-null name the schema declares as a flag name
\* or alias; a scalar flag given before the command token is never stored
\* under a null key or under the command's name.
C21_ResultKeysAreFlagNames ==
  Returned => \A k \in ResultKeys(f) : k # NullStr /\ HasKey(app.flags, k)

\* C22: in every result parse_argv returns no name is a key of more than
\* one of statics, strings, integers, floats and arrays.
C22_OneMappingPerName ==
  Returned =>
    \A m1, m2 \in ResultMaps :
      m1 # m2 => DOMAIN f.parsed_args[m1] \cap DOMAIN f.parsed_args[m2] = {}

\* the value cells a stored pointer of the five mappings leads to
ReachableCells(fr) ==
  UNION { { fr.parsed_args[map][k] : k \in DOMAIN fr.parsed_args[map] } : map \in ResultMaps }
    \ {NULL, SENTINEL}

\* the array buffers the result leads to: the command slot's and those of
\* the reachable cells
ReachableVectors(fr) ==
  { fr.parsed_args.command.vec_value }
    \cup { Cell(fr, ptr).vec_value : ptr \in { q \in ReachableCells(fr) :
                                                "vec_value" \in Cell(fr, q).def } }

\* C23: on every return path of parse_argv each array buffer and each value
\* cell allocated during the call is reachable from the returned result
\* (through one of the five mappings or the command slot), so one
\* destroy_argv call releases each of them and none is leaked.
C23_ResultOwnsAllocations ==
  Returned =>
    /\ \A c \in 1..Len(f.cells) : CellPtr(c) \in ReachableCells(f)
    /\ \A v \in 1..Len(f.vectors) : v \in ReachableVectors(f)

\* C24: every non-null value destroy_argv finds in any of the five
\* mappings, statics included, is a cell the parse created whose vec_value
\* is null or an array buffer the parse created; none is the presence
\* sentinel and none has vec_value unset.
C24_DestroyReadsOnlyCells ==
  Returned =>
    \A map \in ResultMaps : \A k \in DOMAIN f.parsed_args[map] :
      LET value == f.parsed_args[map][k]
      IN value # NULL =>
           /\ value # SENTINEL
           /\ value \in { CellPtr(c) : c \in 1..Len(f.cells) }
           /\ "vec_value" \in Cell(f, IF value = SENTINEL THEN CellPtr(1) ELSE value).def
           /\ Cell(f, IF value = SENTINEL THEN CellPtr(1) ELSE value).vec_value
                \in {NULL} \cup (1..Len(f.vectors))

\* the keys, other than its alias, under which entry e is registered
NamesOf(a, e) ==
  { k \in DOMAIN a.flags : a.flags[k] = e /\ k # Values[e].alias }
    \cup { k \in DOMAIN a.commands : a.commands[k] = e /\ k # Values[e].alias }

\* the caller gave every entry to one registration call only
OneNameEach(a) == \A e \in Registered(a) : Cardinality(NamesOf(a, e)) = 1

\* C25: cli_destroy_app with free_map_values = true releases each schema
\* entry exactly once, also when the entry is registered under a name and
\* an alias and when required_flags refers to it too; none is released
\* twice.
C25_EntriesFreedOnce ==
  (pc \in {"destroyed", "crashed"} /\ destroyed.free_map_values /\ OneNameEach(app)) =>
    \A e \in 1..Len(Values) :
      destroyed.count[e] = IF e \in Registered(app) THEN 1 ELSE 0

\* the dash token arg gets as far as the removal of lines 287 / 307: no
\* value is awaited (lines 262-277) and it is not a lone "-" (line 288)
ReachesStrip(fr, arg) == IsFlagToken(arg) /\ ~fr.waiting_value /\ arg # <<"-">>

\* C26: parse_argv never restores required_flags: each dash token it
\* processes takes its stripped name out of the set and nothing else
\* changes it, so on return the set is its pre-call content minus those
\* names; parse_argv never inserts, and over any sequence of parses the set
\* only shrinks.
C26_RequiredOnlyShrinks ==
  [][ parsed' =>
        app'.required_flags =
          IF pc = "loop" /\ f.i < Len(argv)
             /\ ReachesStrip(f, argv[IF f.i < Len(argv) THEN f.i + 1 ELSE 1])
          THEN hashmap_remove(app.required_flags,
                              StrippedName(argv[IF f.i < Len(argv) THEN f.i + 1 ELSE 1]))
          ELSE app.required_flags ]_vars

\* parse_argv has returned after it accepted the token of a required flag
\* that was registered in full (name, alias, required_flags): the name is
\* no longer in required_flags
C26_Witness ==
  /\ Returned
  /\ \E j \in 2..f.i :
       LET k == StrippedName(argv[j])
       IN /\ IsFlagToken(argv[j])
          /\ HasKey(app.flags, k)
          /\ Values[app.flags[k]].required
          /\ k # Values[app.flags[k]].alias
          /\ HasKey(app.flags, Values[app.flags[k]].alias)
          /\ app.flags[Values[app.flags[k]].alias] = app.flags[k]
          /\ ~HasKey(app.required_flags, k)

\* C27: parse_argv leaves flags and commands unchanged (same keys, same
\* entries) for every argv; of the schema it may only change
\* required_flags.
C27_FlagsAndCommandsUntouched ==
  [][ parsed' => (app'.flags = app.flags /\ app'.commands = app.commands) ]_vars

\* parse_argv has returned after it accepted the token of a registered flag
\* of a schema that has commands too
C27_Witness ==
  /\ Returned
  /\ DOMAIN app.commands # {}
  /\ \E j \in 2..f.i :
       IsFlagToken(argv[j]) /\ HasKey(app.flags, StrippedName(argv[j]))

\* C28: failure is terminal and immediate: the token that causes a failure
\* makes parse_argv return success = 0 at once, with no later token
\* examined, no insertion into the result mappings, and nothing done to
\* required_flags after the return.
C28_FailureIsImmediate ==
  [][ /\ (pc = "loop" /\ f.i < Len(argv) /\ ~f'.parsed_args.success)
         => ( /\ pc' = "returned"
              /\ f'.i = f.i
              /\ \A map \in ResultMaps : f'.parsed_args[map] = f.parsed_args[map] )
      /\ (pc = "returned" /\ ~f.parsed_args.success)
         => (pc' # "loop" /\ app' = app) ]_vars

\* parse_argv has returned a failure before the end of argv, and a later
\* token names a flag that is still in required_flags
C28_Witness ==
  /\ Returned /\ ~f.parsed_args.success
  /\ \E j \in (f.i + 2)..Len(argv) :
       IsFlagToken(argv[j]) /\ HasKey(app.required_flags, StrippedName(argv[j]))

\* the kind that governs a token in value position (lines 376-382)
GoverningKind(fr) == IF fr.parsing_command THEN fr.command_type ELSE fr.last_type

\* C29: a value is never consumed for a STATIC kind: a bare token taken in
\* value position while the governing kind (the last flag's, or the
\* command's while the command is parsed) is STATIC makes parse_argv return
\* success = 0.
C29_NoValueForStatic ==
  [][ ( /\ pc = "loop" /\ f.i < Len(argv)
        /\ ~IsFlagToken(argv[f.i + 1])
        /\ f.waiting_value /\ ~f.parsing_array
        /\ GoverningKind(f) = "STATIC" )
      => (pc' = "returned" /\ ~f'.parsed_args.success) ]_vars

\* an array is being collected
CollectingArray(fr) == fr.waiting_value /\ fr.parsing_array

\* C30: while array collection is active a token beginning with '-' makes
\* parse_argv return success = 0 and every bare token is appended to the
\* current array buffer; collection never ends, so no later token is taken
\* as the command name or as a flag.
C30_ArrayModeIsAbsorbing ==
  [][ (pc = "loop" /\ f.i < Len(argv) /\ CollectingArray(f))
      => IF IsFlagToken(argv[f.i + 1])
         THEN pc' = "returned" /\ ~f'.parsed_args.success
         ELSE /\ pc' = "loop" /\ f'.i = f.i + 1
              /\ CollectingArray(f')
              /\ f'.vectors = [f.vectors EXCEPT ![f.array_values] = Append(@, argv[f.i + 1])]
              /\ f'.command_name = f.command_name
              /\ f'.flag_name = f.flag_name ]_vars

\* parse_argv has returned a failure on a dash token that came while an
\* array with at least one collected token was being collected
C30_Witness ==
  /\ Returned /\ ~f.parsed_args.success
  /\ f.i < Len(argv)
  /\ IsFlagToken(argv[f.i + 1])
  /\ CollectingArray(f)
  /\ f.array_values # NULL
  /\ Len(f.vectors[IF f.array_values = NULL THEN 1 ELSE f.array_values]) >= 1

\* the token just accepted is the token of a scalar command, whose value
\* is still to come
CommandValueOwed(fr) ==
  /\ fr.i > 1
  /\ fr.parsing_command
  /\ fr.command_type \in ScalarTypes
  /\ argv[fr.i] = fr.command_name

\* C31: as the usage line `[flags...] <command> [flags...] <value>
\* [flags...]` advertises, the token of a registered flag placed between
\* the command token and the command's value does not fail the parse: the
\* walk goes on, and the command's value is still owed.
C31_FlagBetweenCommandAndValue ==
  [][ ( /\ pc = "loop" /\ f.i < Len(argv)
        /\ CommandValueOwed(f)
        /\ IsFlagToken(argv[f.i + 1])
        /\ StrippedName(argv[f.i + 1]) # <<>>
        /\ HasKey(app.flags, StrippedName(argv[f.i + 1])) )
      => ( /\ pc' = "loop"
           /\ f'.parsed_args.success
           /\ f'.command = f.command ) ]_vars

\* C32: cli_new_app returns true only if every mapping of the application
\* (flags, commands and required_flags) was allocated; if any of the three
\* allocations fails it returns false.
C32_NewAppChecksAllMaps ==
  (call.fn = "new_app" /\ call.ret) => app.alloc = MapNames

\* C33: on every return path of parse_argv, failure returns included, the
\* command slot of the returned result has been assigned: it equals the
\* locally tracked command value, so destroy_argv never reads an unset
\* vec_value from it.
C33_CommandSlotAssigned ==
  Returned =>
    /\ f.parsed_args.command = f.command
    /\ "vec_value" \in f.parsed_args.command.def

\* C34: a command registered with kind STATIC can never be parsed
\* successfully: whenever the command token resolves to a STATIC command
\* parse_argv returns success = 0 (at the end of input, on a following bare
\* token and on a following flag alike).
C34_StaticCommandNeverSucceeds ==
  ( /\ Returned
    /\ f.parsed_args.cmd_ptr # NULL
    /\ Values[IF f.parsed_args.cmd_ptr = NULL THEN 1 ELSE f.parsed_args.cmd_ptr].type = "STATIC" )
  => ~f.parsed_args.success

\* parse_argv took the last token of argv as a STATIC command, with nothing
\* required any more, and returned a failure at the end of input
C34_Witness ==
  /\ ReturnedAtEnd /\ ~f.parsed_args.success
  /\ Len(argv) >= 2
  /\ f.command_name = argv[Len(argv)]
  /\ CommandHasType(app, f.command_name, "STATIC")
  /\ f.parsed_args.cmd_ptr = app.commands[f.command_name]
  /\ DOMAIN app.required_flags = {}

====
